---------------------------- MODULE Spec2Model ----------------------------
(***************************************************************************)
(* Model of src/src/log/log.cpp: the replicated-log facade.                *)
(*                                                                         *)
(* Three libprocess actors, each with a FIFO mailbox:                      *)
(*   LogProcess        owns replica and network, runs the recovery once;   *)
(*   LogReaderProcess  gates beginning/ending/read on the recovery;        *)
(*   LogWriterProcess  gates elect on the recovery, owns the coordinator.  *)
(* A `defer(self(), f)` callback is a message appended to the actor's own  *)
(* mailbox; `dispatch(pid, f)` appends to the mailbox of pid.  A process   *)
(* that is terminated runs finalize() and drops what is left in its        *)
(* mailbox.  The replica, the coordinator and the recovery procedure are   *)
(* collaborators: they answer (or fail) at any time.                       *)
(***************************************************************************)
EXTENDS Integers, Sequences, FiniteSets, TLC

VARIABLES
  (* LogProcess *)
  logState,      \* "spawned" | "running" | "finalizing" | "terminated"
  logMailbox,    \* queued events of the LogProcess
  recovering,    \* Option<Future<Owned<Replica>>>: st = "none" is None
  recovered,     \* Promise<Nothing> recovered
  promises,      \* list<Promise<Shared<Replica>>*>: the caller of each
  logFut,        \* the future each caller of LogProcess::recover holds
  recoverCalls,  \* number of invocations of log::recover
  recoverRuns,   \* log::recover still holds the replica and `network`
  (* LogReaderProcess *)
  rdState,       \* "none" | "alive" | "terminated"
  rdMailbox,
  rdPromises,    \* list<Promise<Nothing>*>: the operation gated by each
  rdOps,         \* per reader operation: kind, position in the code, future
  (* LogWriterProcess *)
  wrState,
  wrMailbox,
  wrPromises,
  wrOps,
  coordinator,   \* 0 is NULL, n > 0 the n-th Coordinator constructed
  error,         \* Option<string>: "" is None
  coordOps,      \* operations in flight at the current coordinator
  (* what has been observed of the writer (history) *)
  poisoned,      \* an append/truncate future failed and no _elect ran since
  elected,       \* "won": the current coordinator was elected and nothing
                 \* has failed on it; "tainted": something failed on it
  (* LogReaderProcess::__read on its own *)
  readPc, readFrom, readTo, readActions, readResult,
  (* Log::Writer::Writer: the election loop *)
  retries,       \* int retries
  retries0,      \* the argument the constructor was called with (history)
  ctorPc,        \* "idle" | "dispatch" | "await" | "returned"
  elections,     \* elect calls dispatched so far (history)
  ctorOutcome,   \* how the loop ended
  (* Log::Reader::read, Log::Writer::append, Log::Writer::truncate *)
  callOp,        \* the facade method
  callPc,        \* "idle" | "waiting" | "timedout" | "awaited" | "returned"
  callRemaining, \* timeout.remaining(), in ticks
  callFuture,    \* the future dispatch returned
  callSeen,      \* state of the future when await returned (history)
  callResult,    \* Result<T>: none, error(message) or the value
  callDiscarded, \* future.discard() was called
  (* LogProcess with a zookeeper::Group *)
  membership,    \* Future<Group::Membership>
  joins,         \* group->join calls so far
  watches,       \* outstanding group->watch calls: the set each is armed with
  groupMembers,  \* the memberships the group holds now
  reported,      \* the set the latest watch reported (history)
  groupFailed    \* a join or a watch has failed or was discarded (history)

logVars == <<logState, logMailbox, recovering, recovered, promises, logFut,
             recoverCalls, recoverRuns>>
rdVars == <<rdState, rdMailbox, rdPromises, rdOps>>
wrVars == <<wrState, wrMailbox, wrPromises, wrOps, coordinator, error,
            coordOps, poisoned, elected>>
readVars == <<readPc, readFrom, readTo, readActions, readResult>>
ctorVars == <<retries, retries0, ctorPc, elections, ctorOutcome>>
callVars == <<callOp, callPc, callRemaining, callFuture, callSeen, callResult,
              callDiscarded>>
groupVars == <<membership, joins, watches, groupMembers, reported,
               groupFailed>>
sideVars == <<ctorVars, callVars, groupVars>>
vars == <<logVars, rdVars, wrVars, readVars, sideVars>>

--------------------------------------------------------------------------
(* Bounds of the model. *)

\* Positions are 0 .. MaxPos; uint64_t arithmetic is modulo MaxPos + 1.
MaxPos == 2
\* Longest list of actions a replica answers with.
MaxLen == 2
\* Operations a client issues on the reader, on the writer.
MaxReaderOps == 1
MaxWriterOps == 3

--------------------------------------------------------------------------
(* Failure messages of the code. *)

LogDeleted == "Log is being deleted"
ReaderDeleted == "Log reader is being deleted"
WriterDeleted == "Log writer is being deleted"
UnexpectedDiscard == "The future 'recovering' is unexpectedly discarded"
NotExpectingDiscarded == "Not expecting discarded future"
NoElection == "No election has been performed"
BadPending == "Bad read range (includes pending entries)"
BadMissing == "Bad read range (includes missing entries)"

\* What the collaborators fail with.
RecoverFailures == {"recover failed"}
CoordinatorFailures == {"coordinator failed"}

ClosingErrors == {LogDeleted, ReaderDeleted, WriterDeleted}

--------------------------------------------------------------------------
(* process::Future<T>: its state and its value or failure message. *)

NoFuture == [st |-> "none", val |-> ""]
Pending == [st |-> "pending", val |-> ""]
Ready(v) == [st |-> "ready", val |-> v]
Failure(m) == [st |-> "failed", val |-> m]
Discarded == [st |-> "discarded", val |-> ""]

\* An event in a mailbox: a dispatched method or a deferred continuation.
Msg(t, o, v) == [type |-> t, op |-> o, val |-> v]

Range(s) == {s[i] : i \in 1..Len(s)}

\* A mailbox that serves the latest event first.
EnqueueFront(box, m) == <<m>> \o box

\* dispatch(process, ...): the event goes to the back of the mailbox.
Enqueue(box, m) == Append(box, m)

--------------------------------------------------------------------------
(* LogReaderProcess::__read, a function of `from` and the actions.         *)

Uint(n) == n % (MaxPos + 1)

ActionTypes == {"NOP", "APPEND", "TRUNCATE"}
Bytes == {"x", "y"}

\* An Action of the replica in the range from..to: has_learned = FALSE
\* makes learned() the protobuf default, false.
ActionsIn(from, to) ==
  {a \in [position : from..to, type : ActionTypes,
          has_performed : BOOLEAN, has_learned : BOOLEAN, learned : BOOLEAN,
          bytes : Bytes \cup {""}] :
     /\ (a.type = "APPEND") <=> (a.bytes # "")
     /\ a.learned => a.has_learned}

\* Replica::read(from, to): a list of actions of the inclusive range.
SeqsUpTo(S, n) == UNION {[1..k -> S] : k \in 0..n}
ReplicaRead(from, to) == SeqsUpTo(ActionsIn(from, to), MaxLen)

Entry(action) == [position |-> action.position, bytes |-> action.bytes]

ReadOk(entries) == [st |-> "ready", val |-> "", entries |-> entries]
ReadFailure(m) == [st |-> "failed", val |-> m, entries |-> <<>>]

\* A validity test that forgets the value of learned.
IsPendingNoValue(action) ==
  \/ ~action.has_performed
  \/ ~action.has_learned

\* The validity test of one action (lines 515-517).
IsPending(action) ==
  \/ ~action.has_performed
  \/ ~action.has_learned
  \/ ~action.learned

\* A filter that hides NOP alone.
IsReturnedNotNop(action) == action.type # "NOP"

\* Only appends are returned (line 525).
IsReturned(action) == action.type = "APPEND"

RECURSIVE ReadLoop(_, _, _)
ReadLoop(actions, position, entries) ==
  IF actions = <<>> THEN ReadOk(entries)
  ELSE LET action == Head(actions) IN
    IF IsPending(action) THEN ReadFailure(BadPending)
    ELSE IF position # action.position THEN ReadFailure(BadMissing)
    ELSE ReadLoop(Tail(actions), Uint(position + 1),
                  IF IsReturned(action) THEN Append(entries, Entry(action))
                  ELSE entries)

\* Named __read in the source.
Read2(from, to, actions) == ReadLoop(actions, from, <<>>)

--------------------------------------------------------------------------
(* A specification of __read alone: Init draws read(from, to) and the      *)
(* replica's answer, ReadStep applies __read.                              *)

MainInit ==
  /\ logState = "spawned"
  /\ logMailbox = <<>>
  /\ recovering = NoFuture
  /\ recovered = Pending
  /\ promises = <<>>
  /\ logFut = [c \in {"init", "reader", "writer"} |-> NoFuture]
  /\ recoverCalls = 0
  /\ recoverRuns = FALSE
  /\ rdState = "none"
  /\ rdMailbox = <<>>
  /\ rdPromises = <<>>
  /\ rdOps = <<>>
  /\ wrState = "none"
  /\ wrMailbox = <<>>
  /\ wrPromises = <<>>
  /\ wrOps = <<>>
  /\ coordinator = 0
  /\ error = ""
  /\ coordOps = {}
  /\ poisoned = FALSE
  /\ elected = "none"

CtorIdle ==
  /\ retries = 0
  /\ retries0 = 0
  /\ ctorPc = "idle"
  /\ elections = 0
  /\ ctorOutcome = ""

CallIdle ==
  /\ callOp = ""
  /\ callPc = "idle"
  /\ callRemaining = 0
  /\ callFuture = Pending
  /\ callSeen = ""
  /\ callResult = [kind |-> "", val |-> ""]
  /\ callDiscarded = FALSE

GroupIdle ==
  /\ membership = [st |-> "none", id |-> 0]
  /\ joins = 0
  /\ watches = <<>>
  /\ groupMembers = {}
  /\ reported = {}
  /\ groupFailed = FALSE

SideIdle == CtorIdle /\ CallIdle /\ GroupIdle

ReadIdle ==
  /\ readPc = "idle"
  /\ readFrom = 0
  /\ readTo = 0
  /\ readActions = <<>>
  /\ readResult = ReadOk(<<>>)

ReadInit ==
  /\ MainInit
  /\ SideIdle
  /\ readPc = "called"
  /\ readFrom \in 0..MaxPos
  /\ readTo \in 0..MaxPos
  /\ readActions \in ReplicaRead(readFrom, readTo)
  /\ readResult = ReadOk(<<>>)

ReadStep ==
  /\ readPc = "called"
  /\ readPc' = "returned"
  /\ readResult' = Read2(readFrom, readTo, readActions)
  /\ UNCHANGED <<readFrom, readTo, readActions, logVars, rdVars, wrVars,
                 sideVars>>

ReadNext == ReadStep

SpecRead == ReadInit /\ [][ReadNext]_vars

--------------------------------------------------------------------------
(* Properties of __read, checked under SpecRead.                           *)

\* Stated on the fields of the actions, not through the model's operators.
Unlearned(a) == ~(a.has_performed /\ a.has_learned /\ a.learned)
Misplaced(i) == readActions[i].position # readFrom + (i - 1)
Offending(i) == Unlearned(readActions[i]) \/ Misplaced(i)
FirstOffending(i) ==
  /\ i \in 1..Len(readActions)
  /\ Offending(i)
  /\ \A j \in 1..(i - 1) : ~Offending(j)
Returned == readPc = "returned"
ReadFailedWith(m) == readResult = [st |-> "failed", val |-> m, entries |-> <<>>]
AppendsOf(actions) ==
  LET s == SelectSeq(actions, LAMBDA a : a.type = "APPEND")
  IN [i \in 1..Len(s) |-> [position |-> s[i].position, bytes |-> s[i].bytes]]

\* C1 as stated: whenever some action of the answer is not learned, read
\* fails with "Bad read range (includes pending entries)" and returns no
\* entries, and every entry of a successful read comes from an action with
\* performed and learned set.
C1_Original ==
  Returned =>
    /\ (\E i \in 1..Len(readActions) : Unlearned(readActions[i]))
          => ReadFailedWith(BadPending)
    /\ readResult.st = "ready" =>
         \A k \in 1..Len(readResult.entries) :
           \E i \in 1..Len(readActions) :
             /\ ~Unlearned(readActions[i])
             /\ readResult.entries[k].position = readActions[i].position
             /\ readResult.entries[k].bytes = readActions[i].bytes

\* C1 amended: whenever some action of the answer is not learned, read fails
\* and returns no entries, with "pending entries" when the first offending
\* action (not learned, or at an unexpected position) is not learned and
\* with "missing entries" when it is a learned action at an unexpected
\* position; every entry of a successful read comes from a learned action,
\* and a successful read saw no unlearned action at all.
C1_NoUnlearnedEntry ==
  Returned =>
    /\ (\E i \in 1..Len(readActions) : Unlearned(readActions[i]))
          => /\ readResult.st = "failed"
             /\ readResult.entries = <<>>
             /\ \A i \in 1..Len(readActions) : FirstOffending(i) =>
                  readResult.val =
                    IF Unlearned(readActions[i]) THEN BadPending ELSE BadMissing
    /\ readResult.st = "ready" =>
         /\ \A i \in 1..Len(readActions) : ~Unlearned(readActions[i])
         /\ \A k \in 1..Len(readResult.entries) :
              \E i \in 1..Len(readActions) :
                /\ ~Unlearned(readActions[i])
                /\ readResult.entries[k].position = readActions[i].position
                /\ readResult.entries[k].bytes = readActions[i].bytes

\* A read whose answer holds a learned append followed by an action whose
\* learned field is present and false: it failed with "pending entries".
C1_Witness ==
  /\ Returned
  /\ Len(readActions) = 2
  /\ ~Unlearned(readActions[1]) /\ readActions[1].type = "APPEND"
  /\ readActions[2].has_performed /\ readActions[2].has_learned
  /\ ~readActions[2].learned
  /\ ReadFailedWith(BadPending)

\* What a successful read(a, b) returns (both versions of C2 say this).
C2_Success ==
  (Returned /\ readResult.st = "ready") =>
    /\ readResult.entries = AppendsOf(readActions)
    /\ \A i \in 1..Len(readActions) : ~Misplaced(i)
    /\ \A k \in 1..Len(readResult.entries) :
         /\ readResult.entries[k].position \in readFrom..readTo
         /\ \A l \in (k + 1)..Len(readResult.entries) :
              readResult.entries[k].position < readResult.entries[l].position

\* C2 as stated: a successful read returns exactly the APPEND actions of the
\* answer in order, with strictly increasing positions in [a, b], the i-th
\* action being at a + i; and whenever some action is at an unexpected
\* position the read fails with "Bad read range (includes missing entries)".
C2_Original ==
  /\ C2_Success
  /\ Returned =>
       ((\E i \in 1..Len(readActions) : Misplaced(i))
           => ReadFailedWith(BadMissing))

\* C2 amended: as C2, except that a read with an action at an unexpected
\* position fails with "missing entries" only when the first offending
\* action is learned; when that action or an earlier one is not learned the
\* read fails with "pending entries".
C2_ExactAppends ==
  /\ C2_Success
  /\ Returned =>
       ((\E i \in 1..Len(readActions) : Misplaced(i))
           => /\ readResult.st = "failed"
              /\ readResult.entries = <<>>
              /\ \A i \in 1..Len(readActions) : FirstOffending(i) =>
                   readResult.val =
                     IF Unlearned(readActions[i]) THEN BadPending
                     ELSE BadMissing)

\* A successful read of two actions, a TRUNCATE then an APPEND: one entry.
C2_Witness ==
  /\ Returned
  /\ readResult.st = "ready"
  /\ Len(readActions) = 2
  /\ readActions[1].type = "TRUNCATE"
  /\ readActions[2].type = "APPEND"
  /\ Len(readResult.entries) = 1
  /\ readResult.entries[1].position = readFrom + 1

--------------------------------------------------------------------------
(* LogProcess.                                                             *)

Callers == {"init", "reader", "writer"}

\* The futures of LogProcess::recover that change state in this step, and
\* the `recovering.onAny(defer(self(), &Self::_recover))` of the reader and
\* of the writer that holds one (lines 395, 556): a _recover event in the
\* mailbox of the process, dropped when the process is gone.
Transitions(nf) == {c \in Callers : logFut[c].st = "pending" /\ nf[c].st # "pending"}
Deliver(nf) ==
  /\ rdMailbox' = IF "reader" \in Transitions(nf) /\ rdState = "alive"
                  THEN Append(rdMailbox, Msg("_recover", 0, ""))
                  ELSE rdMailbox
  /\ wrMailbox' = IF "writer" \in Transitions(nf) /\ wrState = "alive"
                  THEN Append(wrMailbox, Msg("_recover", 0, ""))
                  ELSE wrMailbox
  /\ UNCHANGED <<rdState, rdPromises, rdOps>>
  /\ UNCHANGED <<wrState, wrPromises, wrOps, coordinator, error, coordOps,
                 poisoned, elected>>

\* A recovery that is started again once it has failed.
StartsRecoveryAgain(rec) == rec.st \in {"none", "failed"}

\* `if (recovering.isNone())` (line 298).
StartsRecovery(rec) == rec.st = "none"

\* What recover() returns at once, NoFuture when it has to queue a promise
\* (lines 280-288).
RecoverNow(signal) ==
  IF signal.st = "discarded" THEN Failure(NotExpectingDiscarded)
  ELSE IF signal.st = "failed" THEN Failure(signal.val)
  ELSE IF signal.st = "ready" THEN Ready("replica")
  ELSE NoFuture

\* LogProcess::recover() called for caller c (lines 272-312).
recover(c) ==
  LET now == RecoverNow(recovered) IN
  IF now # NoFuture
  THEN /\ logFut' = [logFut EXCEPT ![c] = now]
       /\ Deliver([logFut EXCEPT ![c] = now])
       /\ UNCHANGED <<promises, recovering, recoverCalls, recoverRuns>>
  ELSE /\ promises' = Append(promises, c)
       /\ logFut' = [logFut EXCEPT ![c] = Pending]
       /\ Deliver([logFut EXCEPT ![c] = Pending])
       /\ IF StartsRecovery(recovering)
          THEN /\ recovering' = Pending
               /\ recoverCalls' = recoverCalls + 1
               /\ recoverRuns' = TRUE
          ELSE UNCHANGED <<recovering, recoverCalls, recoverRuns>>

\* A continuation that replaces the failure message.
RecoverOutcomeOwnMessage(future) ==
  IF future.st # "ready" THEN Failure(UnexpectedDiscard) ELSE Ready("replica")

\* What _recover gives to `recovered` and to every promise (lines 321-346).
RecoverOutcome(future) ==
  IF future.st # "ready"
  THEN Failure(IF future.st = "failed" THEN future.val ELSE UnexpectedDiscard)
  ELSE Ready("replica")

\* A continuation that leaves the promises in the list.
KeepPromises(list) == list

\* `promises.clear()` (lines 257, 334, 346, 405, 450, 566, 613).
ClearPromises(list) == <<>>

\* LogProcess::_recover() (lines 315-348).
LogRecoverCont ==
  LET out == RecoverOutcome(recovering)
      nf == [c \in Callers |-> IF c \in Range(promises) THEN out ELSE logFut[c]]
  IN /\ recovered' = [st |-> out.st, val |-> IF out.st = "ready" THEN "" ELSE out.val]
     /\ logFut' = nf
     /\ Deliver(nf)
     /\ promises' = ClearPromises(promises)
     /\ UNCHANGED <<recovering, recoverCalls, recoverRuns>>

\* LogProcess::initialize() (lines 220-241): the first recover().
LogInitialize ==
  /\ logState = "spawned"
  /\ logState' = "running"
  /\ recover("init")
  /\ UNCHANGED <<logMailbox, recovered, readVars, sideVars>>

\* The LogProcess serves the event at the head of its mailbox.
LogServeRecover ==
  /\ logState = "running"
  /\ logMailbox # <<>>
  /\ Head(logMailbox).type = "recover"
  /\ logMailbox' = Tail(logMailbox)
  /\ recover(Head(logMailbox).op)
  /\ UNCHANGED <<logState, recovered, readVars, sideVars>>

LogServeRecoverCont ==
  /\ logState = "running"
  /\ logMailbox # <<>>
  /\ Head(logMailbox).type = "_recover"
  /\ logMailbox' = Tail(logMailbox)
  /\ LogRecoverCont
  /\ UNCHANGED <<logState, readVars, sideVars>>

\* log::recover completes: `.onAny(defer(self(), &Self::_recover))`
\* (lines 305-306).
RecoveryCompletes(out) ==
  /\ recovering.st = "pending"
  /\ recovering' = out
  /\ logMailbox' = IF logState = "running"
                   THEN Append(logMailbox, Msg("_recover", "", ""))
                   ELSE logMailbox
  /\ recoverRuns' = FALSE
  /\ UNCHANGED <<logState, recovered, promises, logFut, recoverCalls,
                 rdVars, wrVars, readVars, sideVars>>

RecoverySucceeds == RecoveryCompletes(Ready("replica"))
RecoveryFails == \E m \in RecoverFailures : RecoveryCompletes(Failure(m))

\* A finalize that forgets the queued promises.
FinalizeFailureNone(fut) == fut

\* finalize() fails a queued promise (lines 253-256).
FinalizeFailure(fut) == Failure(LogDeleted)

\* Log::~Log: terminate(process) (line 728).  The events still queued are
\* dropped; finalize() (lines 244-259) discards the recovery, fails the
\* queued promises and then waits for `network` and `replica`.
LogTerminate ==
  /\ logState = "running"
  /\ logState' = "finalizing"
  /\ logMailbox' = <<>>
  /\ recovering' = IF recovering.st = "pending" THEN Discarded ELSE recovering
  /\ LET nf == [c \in Callers |->
                  IF c \in Range(promises) THEN FinalizeFailure(logFut[c])
                  ELSE logFut[c]]
     IN logFut' = nf /\ Deliver(nf)
  /\ promises' = ClearPromises(promises)
  /\ UNCHANGED <<recovered, recoverCalls, recoverRuns, readVars, sideVars>>

\* The recovery that finalize() discarded (line 248) stops and lets go of
\* the replica and of its copy of `network` (line 305).
RecoveryStops ==
  /\ recoverRuns
  /\ recovering.st = "discarded"
  /\ recoverRuns' = FALSE
  /\ UNCHANGED <<logState, logMailbox, recovering, recovered, promises,
                 logFut, recoverCalls, rdVars, wrVars, readVars, sideVars>>

\* A teardown that waits for nobody.
NoHolders == {}

\* Who holds a copy of Shared<Network> (the writer and its coordinator,
\* lines 548, 633; log::recover, line 305) and of Shared<Replica> (the
\* value of a ready `recovering`, lines 390, 549, and the coordinator,
\* line 633) besides the LogProcess.
NetworkHolders ==
  {c \in {"writer"} : wrState = "alive"} \cup {c \in {"recovery"} : recoverRuns}
ReplicaHolders ==
  {c \in {"reader"} : rdState = "alive" /\ logFut[c].st = "ready"}
    \cup {c \in {"writer"} : wrState = "alive" /\ logFut[c].st = "ready"}

\* finalize() returns (lines 267-268), and with it process::wait and ~Log
\* (lines 729-730).  `replica` is empty unless the recovery has succeeded.
LogFinalized ==
  /\ logState = "finalizing"
  /\ NetworkHolders = {}
  /\ recovered.st = "ready" => ReplicaHolders = {}
  /\ logState' = "terminated"
  /\ UNCHANGED <<logMailbox, recovering, recovered, promises, logFut,
                 recoverCalls, recoverRuns, rdVars, wrVars, readVars, sideVars>>

--------------------------------------------------------------------------
(* LogReaderProcess.                                                       *)

ReaderKinds == {"beginning", "ending", "read"}

\* The read the clients of this model issue, and what the replica answers.
MainRange == <<0, 1>>
Learned(p, t, b) ==
  [position |-> p, type |-> t, has_performed |-> TRUE, has_learned |-> TRUE,
   learned |-> TRUE, bytes |-> b]
Answer(name) ==
  IF name = "learned"
  THEN <<Learned(0, "APPEND", "x"), Learned(1, "NOP", "")>>
  ELSE <<Learned(0, "APPEND", "x"),
         [Learned(1, "APPEND", "y") EXCEPT !.has_learned = FALSE,
                                           !.learned = FALSE]>>
Answers == {"learned", "pending"}

\* A gate that lets pass whoever comes after the recovery has failed.
GateOpenOnFailure(future) ==
  IF future.st \in {"ready", "failed"} THEN Ready("")
  ELSE IF future.st = "discarded" THEN Failure(UnexpectedDiscard)
  ELSE Pending

\* A gate that turns away whoever comes before the recovery is done.
GateNoQueue(future) ==
  IF future.st = "ready" THEN Ready("")
  ELSE Failure(IF future.st = "failed" THEN future.val ELSE UnexpectedDiscard)

\* Reader and writer recover() (lines 409-431, 572-594): what the gate
\* returns at once, Pending when a promise is queued.
Gate(future) ==
  IF future.st = "ready" THEN Ready("")
  ELSE IF future.st = "failed" THEN Failure(future.val)
  ELSE IF future.st = "discarded" THEN Failure(UnexpectedDiscard)
  ELSE Pending

\* Reader and writer _recover() (lines 434-452, 597-615): what every queued
\* promise gets.
GateOutcome(future) ==
  IF future.st # "ready"
  THEN Failure(IF future.st = "failed" THEN future.val ELSE UnexpectedDiscard)
  ELSE Ready("")

SetOp(ops, id, pc, fut) == [ops EXCEPT ![id].pc = pc, ![id].fut = fut]

\* A gate that forgets whoever waits at it.
GateStaysShut(op) == op

\* What `promise->set(Nothing())` and `promise->fail(...)` of a gate do to
\* the operation that waits on the promise (lines 438-447, 600-611, and
\* finalize, lines 402, 563).  An operation whose future the caller has
\* discarded ("cancelled") does not run its continuation; its future ends
\* discarded, or failed if it had not changed state yet.
GateOpens(op) ==
  IF op.pc = "cancelled"
  THEN [op EXCEPT !.pc = "done", !.fut = Discarded]
  ELSE [op EXCEPT !.pc = "continuation"]
GateFails(op, out) ==
  [op EXCEPT !.pc = "done",
             !.fut = IF op.fut.st = "discarded" THEN op.fut ELSE out]
Continues(ops, list) == SelectSeq(list, LAMBDA i : ops[i].pc # "cancelled")

\* Log::Reader::Reader (lines 739-743), the constructor of the process
\* (lines 388-390) and initialize() (lines 393-396).
ReaderCreate ==
  /\ rdState = "none"
  /\ logState \in {"spawned", "running"}
  /\ rdState' = "alive"
  /\ logMailbox' = Append(logMailbox, Msg("recover", "reader", ""))
  /\ logFut' = [logFut EXCEPT !["reader"] = Pending]
  /\ UNCHANGED <<logState, recovering, recovered, promises, recoverCalls, recoverRuns,
                 rdMailbox, rdPromises, rdOps, wrVars, readVars, sideVars>>

\* A client dispatches beginning, ending or read (lines 760, 787, 794);
\* the clients of this model do so until they close the log.
ReaderIssue(kind) ==
  /\ rdState = "alive"
  /\ logState \in {"spawned", "running"}
  /\ Len(rdOps) < MaxReaderOps
  /\ rdOps' = Append(rdOps, [kind |-> kind, pc |-> "queued", fut |-> Pending])
  /\ rdMailbox' = Enqueue(rdMailbox, Msg(kind, Len(rdOps) + 1, ""))
  /\ UNCHANGED <<rdState, rdPromises, logVars, wrVars, readVars, sideVars>>

\* beginning(), ending(), read() (lines 455-490):
\* recover().then(defer(self(), &Self::_xxx)).
ReaderServeOp ==
  /\ rdState = "alive"
  /\ rdMailbox # <<>>
  /\ Head(rdMailbox).type \in ReaderKinds
  /\ LET id == Head(rdMailbox).op
         gate == Gate(logFut["reader"])
     IN IF gate.st = "ready"
        THEN /\ rdMailbox' = Append(Tail(rdMailbox), Msg("_op", id, ""))
             /\ rdOps' = SetOp(rdOps, id, "continuation", Pending)
             /\ UNCHANGED rdPromises
        ELSE IF gate.st = "failed"
        THEN /\ rdMailbox' = Tail(rdMailbox)
             /\ rdOps' = SetOp(rdOps, id, "done", gate)
             /\ UNCHANGED rdPromises
        ELSE /\ rdMailbox' = Tail(rdMailbox)
             /\ rdOps' = SetOp(rdOps, id, "gated", Pending)
             /\ rdPromises' = Append(rdPromises, id)
  /\ UNCHANGED <<rdState, logVars, wrVars, readVars, sideVars>>

\* _recover() (lines 434-452).
ReaderServeRecoverCont ==
  /\ rdState = "alive"
  /\ rdMailbox # <<>>
  /\ Head(rdMailbox).type = "_recover"
  /\ LET out == GateOutcome(logFut["reader"])
         gated == Range(rdPromises)
     IN IF out.st = "ready"
        THEN /\ rdMailbox' = Tail(rdMailbox) \o
                  [i \in 1..Len(Continues(rdOps, rdPromises)) |->
                     Msg("_op", Continues(rdOps, rdPromises)[i], "")]
             /\ rdOps' = [i \in 1..Len(rdOps) |->
                            IF i \in gated THEN GateOpens(rdOps[i])
                            ELSE rdOps[i]]
        ELSE /\ rdMailbox' = Tail(rdMailbox)
             /\ rdOps' = [i \in 1..Len(rdOps) |->
                            IF i \in gated THEN GateFails(rdOps[i], out)
                            ELSE rdOps[i]]
  /\ rdPromises' = ClearPromises(rdPromises)
  /\ UNCHANGED <<rdState, logVars, wrVars, readVars, sideVars>>

\* _beginning(), _ending(), _read() (lines 461-501): CHECK_READY(recovering)
\* and the call of the replica.
ReaderServeCont ==
  /\ rdState = "alive"
  /\ rdMailbox # <<>>
  /\ Head(rdMailbox).type = "_op"
  /\ logFut["reader"].st = "ready"
  /\ rdMailbox' = Tail(rdMailbox)
  /\ rdOps' = SetOp(rdOps, Head(rdMailbox).op, "replica", Pending)
  /\ UNCHANGED <<rdState, rdPromises, logVars, wrVars, readVars, sideVars>>

\* The replica answers beginning or ending: `.then(lambda::bind(position))`
\* completes the future at once (lines 465-466, 480-481).
ReplicaAnswersPosition ==
  \E id \in 1..Len(rdOps) :
    /\ rdOps[id].pc = "replica"
    /\ rdOps[id].kind # "read"
    /\ rdOps' = SetOp(rdOps, id, "done", Ready("position"))
    /\ UNCHANGED <<rdState, rdMailbox, rdPromises, logVars, wrVars, readVars, sideVars>>

\* The replica answers a read: `.then(defer(self(), &Self::__read, ...))`
\* (lines 499-500).
ReplicaAnswersRead ==
  \E id \in 1..Len(rdOps), name \in Answers :
    /\ rdState = "alive"
    /\ rdOps[id].pc = "replica"
    /\ rdOps[id].kind = "read"
    /\ rdOps' = SetOp(rdOps, id, "answered", Pending)
    /\ rdMailbox' = Append(rdMailbox, Msg("__read", id, name))
    /\ UNCHANGED <<rdState, rdPromises, logVars, wrVars, readVars, sideVars>>

\* __read() (lines 504-531).
ReaderServeRead ==
  /\ rdState = "alive"
  /\ rdMailbox # <<>>
  /\ Head(rdMailbox).type = "__read"
  /\ LET r == Read2(MainRange[1], MainRange[2], Answer(Head(rdMailbox).val))
     IN rdOps' = SetOp(rdOps, Head(rdMailbox).op, "done",
                       IF r.st = "ready" THEN Ready("entries")
                       ELSE Failure(r.val))
  /\ rdMailbox' = Tail(rdMailbox)
  /\ UNCHANGED <<rdState, rdPromises, logVars, wrVars, readVars, sideVars>>

\* Log::Reader::~Reader (lines 746-751): the events still queued are
\* dropped and finalize() (lines 399-406) fails the queued promises.
ReaderTerminate ==
  /\ rdState = "alive"
  /\ rdState' = "terminated"
  /\ rdMailbox' = <<>>
  /\ rdOps' = [i \in 1..Len(rdOps) |->
                 IF i \in Range(rdPromises)
                 THEN GateFails(rdOps[i], Failure(ReaderDeleted))
                 ELSE rdOps[i]]
  /\ rdPromises' = ClearPromises(rdPromises)
  /\ UNCHANGED <<logVars, wrVars, readVars, sideVars>>

--------------------------------------------------------------------------
(* LogWriterProcess.                                                       *)

WriterKinds == {"elect", "append", "truncate"}
WriteKinds == {"append", "truncate"}

\* Log::Writer::Writer (lines 803-806), the constructor of the process
\* (lines 545-551) and initialize() (lines 554-557).
WriterCreate ==
  /\ wrState = "none"
  /\ logState \in {"spawned", "running"}
  /\ wrState' = "alive"
  /\ logMailbox' = Append(logMailbox, Msg("recover", "writer", ""))
  /\ logFut' = [logFut EXCEPT !["writer"] = Pending]
  /\ UNCHANGED <<logState, recovering, recovered, promises, recoverCalls, recoverRuns,
                 wrMailbox, wrPromises, wrOps, coordinator, error, coordOps,
                 poisoned, elected, rdVars, readVars, sideVars>>

\* A client dispatches elect, append or truncate (lines 813, 863, 894).
\* The event remembers whether an append or truncate future had failed,
\* with no _elect since, when it was dispatched.  The clients of this
\* model issue operations until they close the log.
WriterIssue(kind) ==
  /\ wrState = "alive"
  /\ logState \in {"spawned", "running"}
  /\ Len(wrOps) < MaxWriterOps
  /\ wrOps' = Append(wrOps, [kind |-> kind, pc |-> "queued", fut |-> Pending,
                             coord |-> 0])
  /\ wrMailbox' = Enqueue(wrMailbox,
                          Msg(kind, Len(wrOps) + 1,
                              IF poisoned /\ kind \in WriteKinds
                              THEN "after failure" ELSE ""))
  /\ UNCHANGED <<wrState, wrPromises, coordinator, error, coordOps, poisoned,
                 elected, logVars, rdVars, readVars, sideVars>>

\* elect() (lines 618-621): recover().then(defer(self(), &Self::_elect)).
WriterServeElect ==
  /\ wrState = "alive"
  /\ wrMailbox # <<>>
  /\ Head(wrMailbox).type = "elect"
  /\ LET id == Head(wrMailbox).op
         gate == Gate(logFut["writer"])
     IN /\ IF gate.st = "ready"
           THEN /\ wrMailbox' = Append(Tail(wrMailbox), Msg("_elect", id, ""))
                /\ wrOps' = SetOp(wrOps, id, "continuation", Pending)
                /\ UNCHANGED wrPromises
           ELSE IF gate.st = "failed"
           THEN /\ wrMailbox' = Tail(wrMailbox)
                /\ wrOps' = SetOp(wrOps, id, "done", gate)
                /\ UNCHANGED wrPromises
           ELSE /\ wrMailbox' = Tail(wrMailbox)
                /\ wrOps' = SetOp(wrOps, id, "gated", Pending)
                /\ wrPromises' = Append(wrPromises, id)
  /\ UNCHANGED <<wrState, coordinator, error, coordOps, poisoned, elected,
                 logVars, rdVars, readVars, sideVars>>

\* _recover() (lines 597-615).
WriterServeRecoverCont ==
  /\ wrState = "alive"
  /\ wrMailbox # <<>>
  /\ Head(wrMailbox).type = "_recover"
  /\ LET out == GateOutcome(logFut["writer"])
         gated == Range(wrPromises)
     IN /\ IF out.st = "ready"
           THEN /\ wrMailbox' = Tail(wrMailbox) \o
                     [i \in 1..Len(Continues(wrOps, wrPromises)) |->
                        Msg("_elect", Continues(wrOps, wrPromises)[i], "")]
                /\ wrOps' = [i \in 1..Len(wrOps) |->
                               IF i \in gated THEN GateOpens(wrOps[i])
                               ELSE wrOps[i]]
           ELSE /\ wrMailbox' = Tail(wrMailbox)
                /\ wrOps' = [i \in 1..Len(wrOps) |->
                               IF i \in gated THEN GateFails(wrOps[i], out)
                               ELSE wrOps[i]]
  /\ wrPromises' = ClearPromises(wrPromises)
  /\ UNCHANGED <<wrState, coordinator, error, coordOps, poisoned, elected,
                 logVars, rdVars, readVars, sideVars>>

\* `error = None()` (line 629).
ElectError(err) == ""

\* An election that constructs nothing.
NoCoordinator(c) == 0

\* `coordinator = new Coordinator(...)` (line 633): the next coordinator.
NewCoordinator(c) == c + 1

\* An election that leaves the previous coordinator at work.
KeepCoordinator(ops) == ops

\* `delete coordinator` (line 628): what was in flight on it is dropped.
DeleteCoordinator(ops) == {}

\* _elect() (lines 624-638): the coordinator is deleted, and with it what
\* was in flight on it; a new one is constructed and asked to elect.
WriterServeElectCont ==
  /\ wrState = "alive"
  /\ wrMailbox # <<>>
  /\ Head(wrMailbox).type = "_elect"
  /\ logFut["writer"].st = "ready"
  /\ LET id == Head(wrMailbox).op
     IN /\ error' = ElectError(error)
        /\ coordinator' = NewCoordinator(coordinator)
        /\ coordOps' = DeleteCoordinator(coordOps) \cup {[op |-> id, kind |-> "elect"]}
        /\ wrOps' = [i \in 1..Len(wrOps) |->
                       IF i = id
                       THEN [wrOps[i] EXCEPT !.pc = "coordinator",
                                             !.coord = NewCoordinator(coordinator)]
                       ELSE IF wrOps[i].pc = "coordinator"
                       THEN [wrOps[i] EXCEPT !.pc = "abandoned"]
                       ELSE wrOps[i]]
  /\ wrMailbox' = [i \in 1..(Len(wrMailbox) - 1) |->
                     [wrMailbox[i + 1] EXCEPT !.val =
                        IF wrMailbox[i + 1].type \in WriteKinds THEN "" ELSE @]]
  /\ poisoned' = FALSE
  /\ elected' = "none"
  /\ UNCHANGED <<wrState, wrPromises, logVars, rdVars, readVars, sideVars>>

\* __elect() (lines 641-648) completes the future of elect().
WriterServeElected ==
  /\ wrState = "alive"
  /\ wrMailbox # <<>>
  /\ Head(wrMailbox).type = "__elect"
  /\ LET id == Head(wrMailbox).op
         result == Head(wrMailbox).val
     IN /\ wrOps' = SetOp(wrOps, id, "done", Ready(result))
        /\ elected' = IF result = "some" /\ wrOps[id].coord = coordinator
                         /\ elected = "none"
                      THEN "won" ELSE elected
  /\ wrMailbox' = Tail(wrMailbox)
  /\ UNCHANGED <<wrState, wrPromises, coordinator, error, coordOps, poisoned,
                 logVars, rdVars, readVars, sideVars>>

\* An append that proposes without a coordinator.
WriteOutcomeNoNullTest(coord, err) ==
  IF err # "" THEN Failure(err) ELSE Pending

\* The tests of append() and truncate() (lines 653-659, 669-675): the
\* failure returned, Pending when the coordinator is asked.
WriteOutcome(coord, err) ==
  IF coord = 0 THEN Failure(NoElection)
  ELSE IF err # "" THEN Failure(err)
  ELSE Pending

\* append() and truncate() (lines 651-680).
WriterServeWrite ==
  /\ wrState = "alive"
  /\ wrMailbox # <<>>
  /\ Head(wrMailbox).type \in WriteKinds
  /\ LET id == Head(wrMailbox).op
         out == WriteOutcome(coordinator, error)
     IN IF out.st = "failed"
        THEN /\ wrOps' = SetOp(wrOps, id, "done", out)
             /\ poisoned' = TRUE
             /\ UNCHANGED coordOps
        ELSE /\ wrOps' = [wrOps EXCEPT ![id].pc = "coordinator",
                                       ![id].coord = coordinator]
             /\ coordOps' = coordOps \cup {[op |-> id, kind |-> wrOps[id].kind]}
             /\ UNCHANGED poisoned
  /\ wrMailbox' = Tail(wrMailbox)
  /\ UNCHANGED <<wrState, wrPromises, coordinator, error, elected,
                 logVars, rdVars, readVars, sideVars>>

\* A callback that drops the failure.
FailedIgnored(err, message) == err

\* failed() (lines 683-686).
Failed(err, message) == message

WriterServeFailed ==
  /\ wrState = "alive"
  /\ wrMailbox # <<>>
  /\ Head(wrMailbox).type = "failed"
  /\ error' = Failed(error, Head(wrMailbox).val)
  /\ wrMailbox' = Tail(wrMailbox)
  /\ UNCHANGED <<wrState, wrPromises, wrOps, coordinator, coordOps, poisoned,
                 elected, logVars, rdVars, readVars, sideVars>>

\* The coordinator answers an election: `.then(defer(self(), &Self::__elect,
\* lambda::_1))` (line 636).
CoordinatorElects ==
  \E o \in coordOps, result \in {"some", "none"} :
    /\ o.kind = "elect"
    /\ coordOps' = coordOps \ {o}
    /\ wrMailbox' = Append(wrMailbox, Msg("__elect", o.op, result))
    /\ wrOps' = [wrOps EXCEPT ![o.op].pc = "answered"]
    /\ UNCHANGED <<wrState, wrPromises, coordinator, error, poisoned, elected,
                   logVars, rdVars, readVars, sideVars>>

\* The coordinator answers an append or a truncate:
\* `.then(lambda::bind(&Self::position, lambda::_1))` (lines 662, 678).
CoordinatorWrites ==
  \E o \in coordOps :
    /\ o.kind \in WriteKinds
    /\ coordOps' = coordOps \ {o}
    /\ wrOps' = SetOp(wrOps, o.op, "done", Ready("position"))
    /\ UNCHANGED <<wrState, wrMailbox, wrPromises, coordinator, error,
                   poisoned, elected, logVars, rdVars, readVars, sideVars>>

\* The coordinator fails an operation: the future fails and
\* `.onFailed(defer(self(), &Self::failed, lambda::_1))` (lines 637, 663,
\* 679) puts failed(message) in the mailbox.
CoordinatorFails ==
  \E o \in coordOps, m \in CoordinatorFailures :
    /\ coordOps' = coordOps \ {o}
    /\ wrOps' = SetOp(wrOps, o.op, "done", Failure(m))
    /\ wrMailbox' = Append(wrMailbox, Msg("failed", 0, m))
    /\ poisoned' = (poisoned \/ o.kind \in WriteKinds)
    /\ elected' = "tainted"
    /\ UNCHANGED <<wrState, wrPromises, coordinator, error,
                   logVars, rdVars, readVars, sideVars>>

\* Log::Writer::~Writer (lines 848-853): the events still queued are
\* dropped and finalize() (lines 560-569) fails the queued promises and
\* deletes the coordinator.
WriterTerminate ==
  /\ wrState = "alive"
  /\ wrState' = "terminated"
  /\ wrMailbox' = <<>>
  /\ wrOps' = [i \in 1..Len(wrOps) |->
                 IF i \in Range(wrPromises)
                 THEN GateFails(wrOps[i], Failure(WriterDeleted))
                 ELSE IF wrOps[i].pc = "coordinator"
                 THEN [wrOps[i] EXCEPT !.pc = "abandoned"]
                 ELSE wrOps[i]]
  /\ wrPromises' = ClearPromises(wrPromises)
  /\ coordOps' = {}
  /\ UNCHANGED <<coordinator, error, poisoned, elected, logVars, rdVars,
                 readVars, sideVars>>

--------------------------------------------------------------------------
(* The specification of the three processes.                               *)

Init == MainInit /\ ReadIdle /\ SideIdle

Next ==
  \/ LogInitialize
  \/ LogServeRecover
  \/ LogServeRecoverCont
  \/ RecoverySucceeds
  \/ RecoveryFails
  \/ RecoveryStops
  \/ LogTerminate
  \/ LogFinalized
  \/ ReaderCreate
  \/ \E kind \in ReaderKinds : ReaderIssue(kind)
  \/ ReaderServeOp
  \/ ReaderServeRecoverCont
  \/ ReaderServeCont
  \/ ReplicaAnswersPosition
  \/ ReplicaAnswersRead
  \/ ReaderServeRead
  \/ ReaderTerminate
  \/ WriterCreate
  \/ \E kind \in WriterKinds : WriterIssue(kind)
  \/ WriterServeElect
  \/ WriterServeRecoverCont
  \/ WriterServeElectCont
  \/ WriterServeElected
  \/ WriterServeWrite
  \/ WriterServeFailed
  \/ CoordinatorElects
  \/ CoordinatorWrites
  \/ CoordinatorFails
  \/ WriterTerminate

Spec == Init /\ [][Next]_vars

--------------------------------------------------------------------------
(* Callers that discard the future of a gated operation, as the facade     *)
(* does on a timeout (lines 765, 821).                                     *)

\* A discard that is handed on to the recovery of the log.
OnDiscardPropagates(rec) == IF rec.st = "pending" THEN Discarded ELSE rec

\* No onDiscard callback is registered on the future of a gate or on the
\* future of LogProcess::recover() (the TODOs of lines 309, 428, 591):
\* a discard leaves `recovering` as it is.
OnDiscard(rec) == rec

\* What the caller sees of its future right after discard(): discarded, or
\* still pending until the gate changes state.
AfterDiscard == {Discarded, Pending}

\* The caller of a reader operation that waits on the gate discards its
\* future (Log::Reader::read, line 765).
ReaderDiscard ==
  \E i \in 1..Len(rdOps), f \in AfterDiscard :
    /\ rdState = "alive"
    /\ rdOps[i].pc = "gated"
    /\ rdOps' = SetOp(rdOps, i, "cancelled", f)
    /\ recovering' = OnDiscard(recovering)
    /\ UNCHANGED <<logState, logMailbox, recovered, promises, logFut,
                   recoverCalls, recoverRuns, rdState, rdMailbox, rdPromises,
                   wrVars, readVars, sideVars>>

\* The caller of an elect that waits on the gate discards its future
\* (Log::Writer::Writer, line 821).
WriterDiscard ==
  \E i \in 1..Len(wrOps), f \in AfterDiscard :
    /\ wrState = "alive"
    /\ wrOps[i].pc = "gated"
    /\ wrOps' = SetOp(wrOps, i, "cancelled", f)
    /\ recovering' = OnDiscard(recovering)
    /\ UNCHANGED <<logState, logMailbox, recovered, promises, logFut,
                   recoverCalls, recoverRuns, wrState, wrMailbox, wrPromises,
                   coordinator, error, coordOps, poisoned, elected,
                   rdVars, readVars, sideVars>>

NextDiscard ==
  \/ Next
  \/ ReaderDiscard
  \/ WriterDiscard

SpecDiscard == Init /\ [][NextDiscard]_vars

(***************************************************************************)
(* Log::Writer::Writer (log.cpp:803-845): the election loop of the         *)
(* constructor.  The caller blocks in future.await(timeout); what the     *)
(* future holds when await returns is the input of each iteration.        *)
(* retries is an int: IntBits is its width here.                          *)
(***************************************************************************)
IntBits == 4
IntMin == -(2 ^ (IntBits - 1))
IntMax == (2 ^ (IntBits - 1)) - 1

\* What one dispatched elect can look like when await returns: still pending
\* (await returned false), ready with None, ready with Some(position),
\* failed, or discarded.
ElectOutcomes == {"timeout", "none", "some", "failed", "discarded"}

\* --retries.  Decrementing INT_MIN is a signed overflow, which is undefined:
\* the build either wraps to INT_MAX or, assuming no overflow, keeps the
\* value negative so that the test `--retries < 0` succeeds.
Decrement(r) == IF r > IntMin THEN {r - 1} ELSE {IntMax, IntMin}

CtorInit ==
  /\ MainInit
  /\ ReadIdle
  /\ CallIdle
  /\ GroupIdle
  /\ retries \in IntMin..IntMax
  /\ retries0 = retries
  /\ ctorPc = "dispatch"
  /\ elections = 0
  /\ ctorOutcome = ""

\* dispatch(process, &LogWriterProcess::elect)
CtorDispatch ==
  /\ ctorPc = "dispatch"
  /\ ctorPc' = "await"
  /\ elections' = elections + 1
  /\ UNCHANGED <<retries, retries0, ctorOutcome>>
  /\ UNCHANGED <<logVars, rdVars, wrVars, readVars, callVars, groupVars>>

\* future.await(timeout) returns, and the rest of the iteration.
CtorAwait ==
  /\ ctorPc = "await"
  /\ \E o \in ElectOutcomes :
       IF o \in {"failed", "discarded"}
       THEN /\ ctorPc' = "returned"          \* "Failed to get elected"; break
            /\ ctorOutcome' = "failed"
            /\ UNCHANGED retries
       ELSE IF o = "some"
       THEN /\ ctorPc' = "returned"          \* "Elected"; return
            /\ ctorOutcome' = "elected"
            /\ UNCHANGED retries
       ELSE \* timed out (future.discard()) or lost the election
            \E r \in Decrement(retries) :
              /\ retries' = r
              /\ IF r < 0
                 THEN /\ ctorPc' = "returned"  \* "Retry limit has been reached"
                      /\ ctorOutcome' = "exhausted"
                 ELSE /\ ctorPc' = "dispatch"
                      /\ UNCHANGED ctorOutcome
  /\ UNCHANGED <<retries0, elections>>
  /\ UNCHANGED <<logVars, rdVars, wrVars, readVars, callVars, groupVars>>

CtorNext == CtorDispatch \/ CtorAwait

SpecCtor == CtorInit /\ [][CtorNext]_vars

(***************************************************************************)
(* Log::Reader::read (log.cpp:754-781), Log::Writer::append (856-884) and  *)
(* Log::Writer::truncate (887-915): dispatch, await with a timeout, and    *)
(* the result built from what the future holds when await returns.        *)
(***************************************************************************)
FacadeOps == {"read", "append", "truncate"}
MaxTimeout == 2

\* What the process can complete the dispatched future with.
FacadeOutcomes(op) ==
  IF op = "read"
  THEN {Ready("entries"), Discarded}
         \cup {Failure(m) : m \in {BadPending, BadMissing, ReaderDeleted,
                                   LogDeleted}}
  ELSE {Ready("position"), Discarded}
         \cup {Failure(m) : m \in {NoElection, WriterDeleted, LogDeleted}}

FacadeResultNoFailureTest(timedOut, future) ==
  IF timedOut
  THEN [kind |-> "none", val |-> ""]
  ELSE IF future.st # "ready"
  THEN [kind |-> "error", val |-> NotExpectingDiscarded]
  ELSE [kind |-> "value", val |-> future.val]

\* The Result<T> returned: timedOut is !future.await(timeout.remaining()).
FacadeResult(timedOut, future) ==
  IF timedOut
  THEN [kind |-> "none", val |-> ""]                     \* return None()
  ELSE IF future.st # "ready"
  THEN [kind |-> "error",                                \* return Error(failure)
        val |-> IF future.st = "failed" THEN future.val
                ELSE NotExpectingDiscarded]
  ELSE [kind |-> "value", val |-> future.val]            \* return future.get()

FacadeInit ==
  /\ MainInit
  /\ ReadIdle
  /\ CtorIdle
  /\ GroupIdle
  /\ callOp \in FacadeOps
  /\ callPc = "waiting"                \* future = dispatch(process, ...)
  /\ callRemaining \in 0..MaxTimeout
  /\ callFuture = Pending
  /\ callSeen = ""
  /\ callResult = [kind |-> "", val |-> ""]
  /\ callDiscarded = FALSE

\* The process completes the future, while the caller waits or between the
\* timeout and the caller's discard().
FutureCompletes ==
  /\ callPc \in {"waiting", "timedout"}
  /\ callFuture.st = "pending"
  /\ callFuture' \in FacadeOutcomes(callOp)
  /\ UNCHANGED <<callOp, callPc, callRemaining, callSeen, callResult,
                 callDiscarded>>
  /\ UNCHANGED <<logVars, rdVars, wrVars, readVars, ctorVars, groupVars>>

\* Time passes while the caller waits for a pending future.
Tick ==
  /\ callPc = "waiting"
  /\ callFuture.st = "pending"
  /\ callRemaining > 0
  /\ callRemaining' = callRemaining - 1
  /\ UNCHANGED <<callOp, callPc, callFuture, callSeen, callResult,
                 callDiscarded>>
  /\ UNCHANGED <<logVars, rdVars, wrVars, readVars, ctorVars, groupVars>>

\* future.await(timeout.remaining()) returns: true when the future has been
\* completed, false when the timeout elapsed first.
AwaitReturns ==
  /\ callPc = "waiting"
  /\ callFuture.st = "pending" => callRemaining = 0
  /\ callSeen' = callFuture.st
  /\ callPc' = IF callFuture.st = "pending" THEN "timedout" ELSE "awaited"
  /\ UNCHANGED <<callOp, callRemaining, callFuture, callResult, callDiscarded>>
  /\ UNCHANGED <<logVars, rdVars, wrVars, readVars, ctorVars, groupVars>>

\* The branch taken after await.
FacadeReturn ==
  /\ callPc \in {"timedout", "awaited"}
  /\ callPc' = "returned"
  /\ callResult' = FacadeResult(callPc = "timedout", callFuture)
  /\ IF callPc = "timedout"
     THEN /\ callDiscarded' = TRUE                       \* future.discard()
          /\ callFuture' \in IF callFuture.st = "pending" THEN AfterDiscard
                             ELSE {callFuture}
     ELSE UNCHANGED <<callDiscarded, callFuture>>
  /\ UNCHANGED <<callOp, callRemaining, callSeen>>
  /\ UNCHANGED <<logVars, rdVars, wrVars, readVars, ctorVars, groupVars>>

FacadeNext == FutureCompletes \/ Tick \/ AwaitReturns \/ FacadeReturn

SpecFacade == FacadeInit /\ [][FacadeNext]_vars

(***************************************************************************)
(* A LogProcess built with the ZooKeeper constructor (log.cpp:206-217):    *)
(* group != NULL.  The group is a collaborator: it completes joins, holds  *)
(* the memberships and completes a watch when its set differs from the     *)
(* set the watch was armed with.  A join of this replica gets the number   *)
(* of the join as its membership; Peer is the membership of another        *)
(* replica.                                                                *)
(***************************************************************************)
MaxJoins == 2
Peer == 0

NoMembership == [st |-> "none", id |-> 0]
JoinPending == [st |-> "pending", id |-> 0]

\* A watch callback that never looks at the reported set.
RearmDefault(memberships) == {}

\* `group->watch(memberships)` (line 364): the set the new watch is armed
\* with.
Rearm(memberships) == memberships

\* A callback that joins again although a join is under way.
RejoinsUnlessMember(memberships) ==
  ~(membership.st = "ready" /\ membership.id \in memberships)

\* The test of line 355.
Rejoins(memberships) ==
  membership.st = "ready" /\ membership.id \notin memberships

\* A handler that only logs.
FatalIgnored(state) == state

\* LOG(FATAL) (lines 373, 379).
Fatal(state) == "aborted"

GroupInit ==
  /\ MainInit
  /\ ReadIdle
  /\ CtorIdle
  /\ CallIdle
  /\ membership = NoMembership
  /\ joins = 0
  /\ watches = <<>>
  /\ groupMembers \in SUBSET {Peer}
  /\ reported = {}
  /\ groupFailed = FALSE

\* LogProcess::initialize() with a group (lines 220-241): join, watch(),
\* then the first recover().
LogInitializeGroup ==
  /\ logState = "spawned"
  /\ logState' = "running"
  /\ membership' = JoinPending
  /\ joins' = 1
  /\ watches' = <<{}>>
  /\ recover("init")
  /\ UNCHANGED <<logMailbox, recovered, groupMembers, reported, groupFailed>>
  /\ UNCHANGED <<readVars, ctorVars, callVars>>

\* group->join(...) completes with a membership.
JoinSucceeds ==
  /\ logState = "running"
  /\ membership.st = "pending"
  /\ membership' = [st |-> "ready", id |-> joins]
  /\ groupMembers' = groupMembers \cup {joins}
  /\ UNCHANGED <<joins, watches, reported, groupFailed>>
  /\ UNCHANGED <<logVars, rdVars, wrVars, readVars, ctorVars, callVars>>

\* group->join(...) fails or is discarded:
\* `.onFailed(defer(self(), &Self::failed, lambda::_1))`,
\* `.onDiscarded(defer(self(), &Self::discarded))` (lines 226-228, 359-361).
JoinFails ==
  /\ logState = "running"
  /\ membership.st = "pending"
  /\ \E how \in {"failed", "discarded"} :
       /\ membership' = [st |-> how, id |-> 0]
       /\ logMailbox' = Append(logMailbox, Msg(how, "", {}))
  /\ groupFailed' = TRUE
  /\ UNCHANGED <<joins, watches, groupMembers, reported>>
  /\ UNCHANGED <<logState, recovering, recovered, promises, logFut,
                 recoverCalls, recoverRuns>>
  /\ UNCHANGED <<rdVars, wrVars, readVars, ctorVars, callVars>>

\* The group loses a membership (a session expired) or a peer joins.
MemberLeaves ==
  /\ logState = "running"
  /\ \E m \in groupMembers : groupMembers' = groupMembers \ {m}
  /\ UNCHANGED <<membership, joins, watches, reported, groupFailed>>
  /\ UNCHANGED <<logVars, rdVars, wrVars, readVars, ctorVars, callVars>>

PeerJoins ==
  /\ logState = "running"
  /\ Peer \notin groupMembers
  /\ groupMembers' = groupMembers \cup {Peer}
  /\ UNCHANGED <<membership, joins, watches, reported, groupFailed>>
  /\ UNCHANGED <<logVars, rdVars, wrVars, readVars, ctorVars, callVars>>

Without(list, i) == SubSeq(list, 1, i - 1) \o SubSeq(list, i + 1, Len(list))

\* A watch completes with the group's memberships, which differ from the
\* set it was armed with: `.onReady(defer(self(), &Self::watch, ...))`
\* (lines 233-234, 364-365).
WatchFires ==
  /\ logState = "running"
  /\ \E i \in 1..Len(watches) :
       /\ watches[i] # groupMembers
       /\ watches' = Without(watches, i)
  /\ reported' = groupMembers
  /\ logMailbox' = Append(logMailbox, Msg("watch", "", groupMembers))
  /\ UNCHANGED <<membership, joins, groupMembers, groupFailed>>
  /\ UNCHANGED <<logState, recovering, recovered, promises, logFut,
                 recoverCalls, recoverRuns>>
  /\ UNCHANGED <<rdVars, wrVars, readVars, ctorVars, callVars>>

\* A watch fails or is discarded (lines 235-236, 366-367).
WatchFails ==
  /\ logState = "running"
  /\ \E i \in 1..Len(watches) : watches' = Without(watches, i)
  /\ \E how \in {"failed", "discarded"} :
       logMailbox' = Append(logMailbox, Msg(how, "", {}))
  /\ groupFailed' = TRUE
  /\ UNCHANGED <<membership, joins, groupMembers, reported>>
  /\ UNCHANGED <<logState, recovering, recovered, promises, logFut,
                 recoverCalls, recoverRuns>>
  /\ UNCHANGED <<rdVars, wrVars, readVars, ctorVars, callVars>>

\* LogProcess::watch (lines 351-368).
LogServeWatch ==
  /\ logState = "running"
  /\ logMailbox # <<>>
  /\ Head(logMailbox).type = "watch"
  /\ logMailbox' = Tail(logMailbox)
  /\ LET memberships == Head(logMailbox).val
     IN /\ IF Rejoins(memberships)
           THEN /\ joins < MaxJoins
                /\ membership' = JoinPending
                /\ joins' = joins + 1
           ELSE UNCHANGED <<membership, joins>>
        /\ watches' = Append(watches, Rearm(memberships))
  /\ UNCHANGED <<groupMembers, reported, groupFailed>>
  /\ UNCHANGED <<logState, recovering, recovered, promises, logFut,
                 recoverCalls, recoverRuns>>
  /\ UNCHANGED <<rdVars, wrVars, readVars, ctorVars, callVars>>

\* LogProcess::failed (lines 371-374).
LogServeFailed ==
  /\ logState = "running"
  /\ logMailbox # <<>>
  /\ Head(logMailbox).type = "failed"
  /\ logMailbox' = Tail(logMailbox)
  /\ logState' = Fatal(logState)
  /\ UNCHANGED <<recovering, recovered, promises, logFut, recoverCalls,
                 recoverRuns>>
  /\ UNCHANGED <<rdVars, wrVars, readVars, sideVars>>

\* LogProcess::discarded (lines 377-380).
LogServeDiscarded ==
  /\ logState = "running"
  /\ logMailbox # <<>>
  /\ Head(logMailbox).type = "discarded"
  /\ logMailbox' = Tail(logMailbox)
  /\ logState' = Fatal(logState)
  /\ UNCHANGED <<recovering, recovered, promises, logFut, recoverCalls,
                 recoverRuns>>
  /\ UNCHANGED <<rdVars, wrVars, readVars, sideVars>>

GroupNext ==
  \/ LogInitializeGroup
  \/ JoinSucceeds
  \/ JoinFails
  \/ MemberLeaves
  \/ PeerJoins
  \/ WatchFires
  \/ WatchFails
  \/ LogServeWatch
  \/ LogServeFailed
  \/ LogServeDiscarded
  \/ LogServeRecoverCont
  \/ RecoverySucceeds
  \/ RecoveryFails
  \/ RecoveryStops
  \/ LogTerminate
  \/ LogFinalized

SpecGroup == GroupInit /\ [][GroupNext]_vars

--------------------------------------------------------------------------
(* Properties of the writer, checked under Spec.                           *)

\* This step serves the append or truncate at the head of the writer's
\* mailbox (stated on the mailbox, not through the model's actions).
ServesWrite ==
  /\ wrState = "alive" /\ wrState' = "alive"
  /\ wrMailbox # <<>>
  /\ Head(wrMailbox).type \in {"append", "truncate"}
  /\ Len(wrMailbox') = Len(wrMailbox) - 1
WriteServed == Head(wrMailbox).op
IsDelegated ==
  /\ wrOps'[WriteServed].fut.st = "pending"
  /\ [op |-> WriteServed, kind |-> Head(wrMailbox).type] \in coordOps'
IsRejected ==
  /\ wrOps'[WriteServed].fut.st = "failed"
  /\ wrOps'[WriteServed].fut.val \in {NoElection} \cup CoordinatorFailures
  /\ coordOps' = coordOps

\* C3 (I3, poisoning): an append or truncate dispatched after the future of
\* an append or truncate of this writer failed, with no _elect run since
\* that failure, is not handed to the coordinator: it fails with "No
\* election has been performed" or with the stored failure, wherever the
\* deferred failed() falls among the client's requests.
C3_Poisoning ==
  [][(ServesWrite /\ Head(wrMailbox).val = "after failure") => IsRejected]_vars

\* An append was handed to the coordinator, which failed it; a later append
\* or truncate was rejected with the stored failure without being handed on.
C3_Witness ==
  \E a, b \in 1..Len(wrOps) :
    /\ a < b
    /\ wrOps[a].kind \in WriteKinds /\ wrOps[b].kind \in WriteKinds
    /\ wrOps[a].coord > 0 /\ wrOps[a].fut.st = "failed"
    /\ wrOps[b].coord = 0 /\ wrOps[b].fut = wrOps[a].fut
    /\ error = wrOps[a].fut.val

\* C4 as stated: once elect() has returned Some(position) on the current
\* coordinator and nothing has failed on that coordinator, the next append
\* (or truncate) is handed to it: no failure from before the election is
\* left, or arrives, in `error`.
C4_Original ==
  [][(ServesWrite /\ elected = "won") => IsDelegated]_vars

\* C5: an append or truncate served while the coordinator is absent fails
\* with "No election has been performed", asks no coordinator and leaves
\* coordinator and error as they were.
C5_NoElection ==
  [][(ServesWrite /\ coordinator = 0) =>
       /\ wrOps'[WriteServed].fut = [st |-> "failed", val |-> NoElection]
       /\ UNCHANGED <<coordinator, error, coordOps>>]_vars

\* A truncate and an append both failed with "No election has been
\* performed" on a writer that never elected.
C5_Witness ==
  /\ coordinator = 0 /\ error = "" /\ coordOps = {}
  /\ \E a, b \in 1..Len(wrOps) :
       /\ wrOps[a].kind = "append" /\ wrOps[b].kind = "truncate"
       /\ wrOps[a].fut = [st |-> "failed", val |-> NoElection]
       /\ wrOps[b].fut = [st |-> "failed", val |-> NoElection]

--------------------------------------------------------------------------
(* Properties of the recovery, checked under Spec.                         *)

Resolved(f) == f.st \in {"ready", "failed", "discarded"}
ReplicaFuture == [st |-> "ready", val |-> "replica"]
FailedWith(m) == [st |-> "failed", val |-> m]
Queued(box, t) == \E i \in 1..Len(box) : box[i].type = t
RecoverQueued(c) ==
  \E i \in 1..Len(logMailbox) :
    logMailbox[i].type = "recover" /\ logMailbox[i].op = c
GatedReader == {i \in 1..Len(rdOps) : TRUE}
GatedWriter == {i \in 1..Len(wrOps) : wrOps[i].kind = "elect"}

\* C6: log::recover is invoked at most once, also once it has failed, and
\* every future LogProcess::recover() has handed out hangs on that one
\* recovery: it is ready only if the recovery is, it fails with the failure
\* of the recovery (or with the log's deletion), and while the log runs a
\* pending one has its promise in the queue or its call in the mailbox.
C6_OneRecovery ==
  /\ recoverCalls <= 1
  /\ logState # "spawned" => recoverCalls = 1
  /\ \A c \in {"init", "reader", "writer"} :
       /\ logFut[c].st = "ready" =>
            (recovering.st = "ready" /\ logFut[c] = ReplicaFuture)
       /\ logFut[c].st = "failed" =>
            \/ logFut[c] = FailedWith(LogDeleted)
            \/ (recovering.st = "failed" /\ logFut[c] = recovering)
       /\ (logFut[c].st = "pending" /\ logState = "running") =>
            (c \in Range(promises) \/ RecoverQueued(c))
  /\ \A i \in 1..Len(promises) :
       /\ logFut[promises[i]].st = "pending"
       /\ \A j \in 1..Len(promises) : promises[i] = promises[j] => i = j

\* The recovery has failed, the reader and the writer called recover() and
\* got its failure, and log::recover was invoked once.
C6_Witness ==
  /\ recoverCalls = 1
  /\ recovered.st = "failed"
  /\ logFut["reader"] = recovering
  /\ logFut["writer"] = recovering
  /\ logFut["init"] = recovering

\* This step serves the event at the head of the log's mailbox.
ServesLog(t) ==
  /\ logState = "running" /\ logState' = "running"
  /\ logMailbox # <<>>
  /\ Head(logMailbox).type = t
  /\ logMailbox' = Tail(logMailbox)

\* C7 as stated: once the recovery has completed successfully, every future
\* of LogProcess::recover() that has completed holds the shared replica.
C7_Original ==
  recovering.st = "ready" =>
    \A c \in {"init", "reader", "writer"} :
      Resolved(logFut[c]) => logFut[c] = ReplicaFuture

\* C7 amended: the step in which the LogProcess handles a successful
\* recovery (_recover) resolves `recovered`, gives the shared replica to
\* every promise queued so far and empties the queue; a recover() served
\* once `recovered` is ready returns the replica at once and queues nothing.
\* The step that shuts the log down leaves `recovered` as it is and fails
\* the promises still queued with "Log is being deleted", also when the
\* recovery has completed and its _recover is dropped with the mailbox.
C7_RecoverySuccess ==
  [][/\ (ServesLog("_recover") /\ recovering.st = "ready") =>
          /\ recovered' = [st |-> "ready", val |-> ""]
          /\ \A c \in Range(promises) : logFut'[c] = ReplicaFuture
          /\ promises' = <<>>
     /\ (ServesLog("recover") /\ recovered.st = "ready") =>
          /\ logFut'[Head(logMailbox).op] = ReplicaFuture
          /\ promises = <<>> /\ promises' = <<>>
          /\ UNCHANGED <<recovering, recovered, recoverCalls>>
     /\ (logState = "running" /\ logState' # "running") =>
          /\ recovered' = recovered
          /\ \A c \in Range(promises) : logFut'[c] = FailedWith(LogDeleted)
          /\ promises' = <<>>]_vars

\* The recovery succeeded and initialize, the reader and the writer all
\* hold the shared replica; nothing is queued.
C7_Witness ==
  /\ recovered.st = "ready"
  /\ promises = <<>>
  /\ \A c \in {"init", "reader", "writer"} : logFut[c] = ReplicaFuture
  /\ logState = "running"

\* What C8 says of the LogProcess.
C8_Log ==
  recovered.st = "failed" =>
    /\ recovering = recovered
    /\ recovered.val \in RecoverFailures
    /\ promises = <<>>
    /\ \A c \in {"init", "reader", "writer"} :
         /\ Resolved(logFut[c]) => logFut[c] = recovered
         /\ (logFut[c].st = "pending" /\ logState = "running")
               => RecoverQueued(c)

\* C8 as stated: once the recovery has failed with m, every promise of the
\* LogProcess has failed with m, a later recover() fails with m at once,
\* and every gated operation (beginning, ending, read, elect) of the reader
\* and of the writer that has completed failed with m.
C8_Original ==
  /\ C8_Log
  /\ recovered.st = "failed" =>
       /\ \A i \in GatedReader :
            Resolved(rdOps[i].fut) => rdOps[i].fut = recovered
       /\ \A i \in GatedWriter :
            Resolved(wrOps[i].fut) => wrOps[i].fut = recovered

\* C8 amended: as C8, except that an operation still gated when its own
\* reader or writer is shut down fails with "Log reader is being deleted"
\* or "Log writer is being deleted" instead of m.
C8_RecoveryFailure ==
  /\ C8_Log
  /\ recovered.st = "failed" =>
       /\ \A i \in GatedReader :
            Resolved(rdOps[i].fut) =>
              \/ rdOps[i].fut = recovered
              \/ (rdState = "terminated" /\ rdOps[i].fut = FailedWith(ReaderDeleted))
       /\ \A i \in GatedWriter :
            Resolved(wrOps[i].fut) =>
              \/ wrOps[i].fut = recovered
              \/ (wrState = "terminated" /\ wrOps[i].fut = FailedWith(WriterDeleted))
       /\ (rdState = "alive" /\ logFut["reader"].st = "failed"
             /\ ~Queued(rdMailbox, "_recover")) => rdPromises = <<>>
       /\ (wrState = "alive" /\ logFut["writer"].st = "failed"
             /\ ~Queued(wrMailbox, "_recover")) => wrPromises = <<>>

\* The recovery failed; a read of a living reader and an elect of a living
\* writer failed with its message.
C8_Witness ==
  /\ recovered.st = "failed"
  /\ rdState = "alive" /\ wrState = "alive"
  /\ \E i \in 1..Len(rdOps) :
       rdOps[i].kind = "read" /\ rdOps[i].fut = recovering
  /\ \E i \in 1..Len(wrOps) :
       wrOps[i].kind = "elect" /\ wrOps[i].fut = recovering

C10_Original ==
  logState = "terminated" =>
    /\ \A c \in {"init", "reader", "writer"} : logFut[c].st # "pending"
    /\ \A i \in 1..Len(rdOps) : rdOps[i].fut.st # "pending"
    /\ \A i \in 1..Len(wrOps) : wrOps[i].fut.st # "pending"

\* I5 for the operations the reader gated on a recover() that the log had
\* queued: they too may be pending when ~Log has returned.
C10_GatedOnly ==
  logState = "terminated" =>
    \A i \in 1..Len(rdOps) :
      (rdOps[i].pc = "gated" /\ Resolved(logFut["reader"]))
         => rdOps[i].fut.st # "pending"

--------------------------------------------------------------------------
(* Properties of the teardown and of the coordinator, checked under Spec.  *)

\* C11: the step in which finalize() returns (and with it ~Log) happens
\* only when nobody else holds `network` (no living writer with its
\* coordinator, no recovery still running) and nobody else holds the shared
\* replica (no living reader or writer with a ready `recovering`); and from
\* the moment the wait starts the recovery is no longer pending and no
\* promise is queued.
C11_UniqueOwner ==
  /\ logState = "terminated" =>
       /\ wrState # "alive"
       /\ ~recoverRuns
       /\ \A c \in {"reader", "writer"} :
            logFut[c].st = "ready" =>
              (IF c = "reader" THEN rdState ELSE wrState) # "alive"
  /\ logState \in {"finalizing", "terminated"} =>
       /\ recovering.st # "pending"
       /\ promises = <<>>

\* ~Log has returned after a recovery that succeeded: the reader and the
\* writer that held the replica and `network` are gone.
C11_Witness ==
  /\ logState = "terminated"
  /\ recovered.st = "ready"
  /\ logFut["reader"].st = "ready" /\ rdState = "terminated"
  /\ logFut["writer"].st = "ready" /\ wrState = "terminated"
  /\ coordinator > 0

\* This step serves the _elect at the head of the writer's mailbox.
ServesElectCont ==
  /\ wrState = "alive" /\ wrState' = "alive"
  /\ wrMailbox # <<>>
  /\ Head(wrMailbox).type = "_elect"
  /\ Len(wrMailbox') = Len(wrMailbox) - 1

\* C12 as stated: a coordinator is present only once an elect on it has
\* returned Some(position); it is absent before the first successful
\* elect and after an elect that failed or lost; and no append or truncate
\* that arrived after an elect call is handed to a coordinator older than
\* the one of that call.
C12_Original ==
  /\ coordinator > 0 =>
       \E i \in 1..Len(wrOps) :
         /\ wrOps[i].kind = "elect"
         /\ wrOps[i].coord = coordinator
         /\ wrOps[i].fut = [st |-> "ready", val |-> "some"]
  /\ \A e, a \in 1..Len(wrOps) :
       (e < a /\ wrOps[e].kind = "elect" /\ wrOps[e].coord > 0
          /\ wrOps[a].kind \in WriteKinds /\ wrOps[a].coord > 0)
         => wrOps[a].coord >= wrOps[e].coord

\* C12 amended: the coordinator is absent until the first _elect runs and
\* present from then on, whatever the elections return; only a run of
\* _elect (with the recovery ready) changes it, to a fresh one; and an
\* append or truncate that is delegated goes to the coordinator present
\* when it is served, which is the previous one if the _elect of a later
\* elect call has not run yet.
C12_CoordinatorPresence ==
  [][/\ coordinator' # coordinator =>
          /\ ServesElectCont
          /\ logFut["writer"].st = "ready"
          /\ coordinator' = coordinator + 1
     /\ ServesElectCont => coordinator' > 0
     /\ (coordinator' = 0) <=>
          (\A i \in 1..Len(wrOps') : wrOps'[i].coord = 0)
     /\ (ServesWrite /\ wrOps'[WriteServed].fut.st = "pending") =>
          /\ coordinator > 0
          /\ wrOps'[WriteServed].coord = coordinator]_vars

\* An elect lost its election (None) and a later append was nevertheless
\* handed to the coordinator of that election.
C12_Witness ==
  \E e, a \in 1..Len(wrOps) :
    /\ e < a
    /\ wrOps[e].kind = "elect"
    /\ wrOps[e].fut = [st |-> "ready", val |-> "none"]
    /\ wrOps[e].coord = coordinator
    /\ wrOps[a].kind = "append"
    /\ wrOps[a].coord = coordinator
    /\ wrOps[a].pc = "coordinator"

\* C13: every run of _elect clears `error`, drops the previous coordinator
\* with what was in flight on it and constructs the next one, so that the
\* only operation in flight afterwards is the new election; and in every
\* state every operation in flight at a coordinator was handed to the
\* current one, the one the latest run of _elect constructed.
C13_SingleLeader ==
  [][/\ ServesElectCont =>
          /\ error' = ""
          /\ coordinator' = coordinator + 1
          /\ coordOps' = {[op |-> Head(wrMailbox).op, kind |-> "elect"]}
          /\ \A i \in 1..Len(wrOps) :
               wrOps[i].pc = "coordinator" => wrOps'[i].pc = "abandoned"
     /\ \A o \in coordOps' :
          /\ wrOps'[o.op].coord = coordinator'
          /\ wrOps'[o.op].pc = "coordinator"
     /\ \A i \in 1..Len(wrOps') :
          wrOps'[i].pc = "coordinator" =>
            [op |-> i, kind |-> wrOps'[i].kind] \in coordOps']_vars

\* Two elect calls back to back: the second _elect ran while the election
\* of the first was in flight, which went with its coordinator.
C13_Witness ==
  /\ Len(wrOps) >= 2
  /\ wrOps[1].kind = "elect" /\ wrOps[1].pc = "abandoned"
  /\ wrOps[1].coord = 1
  /\ wrOps[2].kind = "elect" /\ wrOps[2].coord = 2
  /\ coordinator = 2
  /\ coordOps = {[op |-> 2, kind |-> "elect"]}

\* C14 (FIFO per writer): operations are numbered in the order of their
\* arrival; when an append or truncate is handed to the coordinator, no
\* append or truncate that arrived after it has been served yet.
C14_Fifo ==
  [][(ServesWrite /\ IsDelegated) =>
       \A j \in 1..Len(wrOps) :
         (j > WriteServed /\ wrOps[j].kind \in WriteKinds) =>
           /\ wrOps[j].pc = "queued"
           /\ wrOps[j].coord = 0]_vars

\* An append and a truncate, received in that order, are both in flight at
\* the current coordinator.
C14_Witness ==
  \E a, b \in 1..Len(wrOps) :
    /\ a < b
    /\ wrOps[a].kind = "append" /\ wrOps[b].kind = "truncate"
    /\ wrOps[a].pc = "coordinator" /\ wrOps[b].pc = "coordinator"
    /\ wrOps[a].coord = coordinator /\ wrOps[b].coord = coordinator

--------------------------------------------------------------------------
(* Properties of the gates, checked under Spec.                            *)

\* C18: a reader operation is at the replica (or has its answer) and a
\* coordinator exists only if the recovery has succeeded and the process
\* holds the shared replica; and a reader operation or an elect completes
\* (ready or failed) only once the recovery is no longer pending or the
\* process itself has shut down.
C18_Gating ==
  /\ \A i \in 1..Len(rdOps) :
       /\ (rdOps[i].pc \in {"replica", "answered"} \/ rdOps[i].fut.st = "ready") =>
            /\ recovering.st = "ready" /\ recovered.st = "ready"
            /\ logFut["reader"] = ReplicaFuture
       /\ Resolved(rdOps[i].fut) =>
            (recovering.st \notin {"none", "pending"} \/ rdState = "terminated")
  /\ coordinator > 0 =>
       /\ recovering.st = "ready" /\ recovered.st = "ready"
       /\ logFut["writer"] = ReplicaFuture
  /\ \A i \in 1..Len(wrOps) :
       wrOps[i].kind = "elect" =>
         /\ wrOps[i].coord > 0 => logFut["writer"] = ReplicaFuture
         /\ Resolved(wrOps[i].fut) =>
              (recovering.st \notin {"none", "pending"} \/ wrState = "terminated")

\* A read and an elect were served while the recovery was pending: both
\* wait in the queues of their gates, no coordinator exists.
C18_Witness ==
  /\ recovering.st = "pending"
  /\ rdState = "alive" /\ wrState = "alive"
  /\ \E i \in Range(rdPromises) :
       rdOps[i].kind = "read" /\ rdOps[i].pc = "gated"
         /\ rdOps[i].fut.st = "pending"
  /\ \E i \in Range(wrPromises) :
       wrOps[i].kind = "elect" /\ wrOps[i].pc = "gated"
         /\ wrOps[i].fut.st = "pending"
  /\ coordinator = 0

--------------------------------------------------------------------------
(* Properties of cancellation, checked under SpecDiscard.                  *)

\* This step discards the future of a gated operation.
DiscardsReader ==
  \E i \in 1..Len(rdOps) : rdOps[i].pc = "gated" /\ rdOps'[i].pc = "cancelled"
DiscardsWriter ==
  \E i \in 1..Len(wrOps) : wrOps[i].pc = "gated" /\ wrOps'[i].pc = "cancelled"
\* This step serves the _recover at the head of the mailbox.
ServesReaderRecover ==
  /\ rdState = "alive" /\ rdState' = "alive"
  /\ rdMailbox # <<>> /\ Head(rdMailbox).type = "_recover"
  /\ rdPromises' = <<>>
ServesWriterRecover ==
  /\ wrState = "alive" /\ wrState' = "alive"
  /\ wrMailbox # <<>> /\ Head(wrMailbox).type = "_recover"
  /\ wrPromises' = <<>>

\* C15: the step that discards the future of a gated operation changes
\* nothing but that operation: the LogProcess, its recovery, the queues of
\* the gates and every other operation stay as they are; the recovery is
\* discarded only by the shutdown of the log and is still invoked once;
\* and when a gate opens or fails, every waiting operation that was not
\* discarded runs its continuation or fails with the gate's failure.
C15_Cancellation ==
  [][/\ (DiscardsReader \/ DiscardsWriter) =>
          /\ UNCHANGED <<logVars, rdState, rdMailbox, rdPromises,
                         wrState, wrMailbox, wrPromises, coordinator,
                         error, coordOps>>
          /\ \A j \in 1..Len(rdOps) :
               rdOps'[j] # rdOps[j] =>
                 (rdOps[j].pc = "gated" /\ rdOps'[j].pc = "cancelled")
          /\ \A j \in 1..Len(wrOps) :
               wrOps'[j] # wrOps[j] =>
                 (wrOps[j].pc = "gated" /\ wrOps'[j].pc = "cancelled")
     /\ recovering'.st = "discarded" =>
          logState' \in {"finalizing", "terminated"}
     /\ recoverCalls' <= 1
     /\ ServesReaderRecover =>
          \A i \in Range(rdPromises) :
            rdOps[i].pc = "gated" =>
              IF logFut["reader"].st = "ready"
              THEN /\ rdOps'[i].pc = "continuation"
                   /\ Msg("_op", i, "") \in Range(rdMailbox')
              ELSE rdOps'[i].fut = GateOutcome(logFut["reader"])
     /\ ServesWriterRecover =>
          \A i \in Range(wrPromises) :
            wrOps[i].pc = "gated" =>
              IF logFut["writer"].st = "ready"
              THEN /\ wrOps'[i].pc = "continuation"
                   /\ Msg("_elect", i, "") \in Range(wrMailbox')
              ELSE wrOps'[i].fut = GateOutcome(logFut["writer"])]_vars

\* An elect was discarded while it waited on the gate; the recovery
\* succeeded all the same, another elect that waited with it won its
\* election and the read of the reader returned its entries.
C15_Witness ==
  /\ recovered.st = "ready"
  /\ \E a, b \in 1..Len(wrOps) :
       /\ wrOps[a].kind = "elect" /\ wrOps[b].kind = "elect"
       /\ wrOps[a].fut.st = "discarded" /\ wrOps[a].coord = 0
       /\ wrOps[b].fut = [st |-> "ready", val |-> "some"]
  /\ \E i \in 1..Len(rdOps) :
       rdOps[i].fut = [st |-> "ready", val |-> "entries"]

(***************************************************************************)
(* C16.  The election loop of the Writer constructor.                      *)
(***************************************************************************)
Max(a, b) == IF a >= b THEN a ELSE b

\* C16 (as stated): for every retries value and every sequence of election
\* outcomes the constructor dispatches at least one and at most retries+1
\* elect calls, and it has dispatched at least one when it returns.
C16_Original ==
  /\ elections <= Max(1, retries0 + 1)
  /\ ctorPc = "returned" => elections >= 1

\* The same bound for every retries value whose decrement is defined.
C16_DefinedDecrement ==
  retries0 > IntMin =>
    /\ elections <= Max(1, retries0 + 1)
    /\ ctorPc = "returned" => elections >= 1
    /\ ctorOutcome = "exhausted" => retries < 0


(***************************************************************************)
(* C17.  The results of read, append and truncate.                         *)
(***************************************************************************)
\* C17 (as stated): the result is none, with the future discarded, exactly
\* when the future was pending at the end of the wait, an error carrying the
\* failure message exactly when the future had failed, and the value exactly
\* when it was ready.
C17_Original ==
  callPc = "returned" =>
    /\ callResult.kind \in {"none", "error", "value"}
    /\ callResult.kind = "none" <=> callSeen = "pending"
    /\ callDiscarded <=> callSeen = "pending"
    /\ callResult.kind = "error" <=> callSeen = "failed"
    /\ callResult.kind = "error" => callResult.val = callFuture.val
    /\ callResult.kind = "value" <=> callSeen = "ready"
    /\ callResult.kind = "value" => callResult.val = callFuture.val

\* C17 (amended): as above, but a future found discarded at the end of the
\* wait also gives an error, carrying "Not expecting discarded future".
C17_FacadeResult ==
  callPc = "returned" =>
    /\ callResult.kind \in {"none", "error", "value"}
    /\ callResult.kind = "none" <=> callSeen = "pending"
    /\ callDiscarded <=> callSeen = "pending"
    /\ callResult.kind = "error" <=> callSeen \in {"failed", "discarded"}
    /\ callSeen = "failed" =>
         callFuture.st = "failed" /\ callResult.val = callFuture.val
    /\ callSeen = "discarded" => callResult.val = NotExpectingDiscarded
    /\ callResult.kind = "value" <=> callSeen = "ready"
    /\ callSeen = "ready" =>
         callFuture.st = "ready" /\ callResult.val = callFuture.val

\* An append whose future was found discarded has returned an error.
C17_Witness ==
  /\ callPc = "returned"
  /\ callOp = "append"
  /\ callSeen = "discarded"
  /\ callResult = [kind |-> "error", val |-> NotExpectingDiscarded]


(***************************************************************************)
(* C19.  The watch callback of a LogProcess with a group.                  *)
(***************************************************************************)
\* A step in which the LogProcess serves a watch callback.
ServesWatch ==
  /\ logState = "running"
  /\ logMailbox # <<>>
  /\ Head(logMailbox).type = "watch"
  /\ logMailbox' = Tail(logMailbox)
  /\ logState' = "running"

\* Watches armed at the group plus watch callbacks not yet served.
WatchesInFlight ==
  Len(watches) + Cardinality({i \in 1..Len(logMailbox) :
                                logMailbox[i].type = "watch"})

\* C19: a watch callback rejoins the group exactly when the process holds a
\* membership and that membership is absent from the reported set, and then
\* arms one watch with the reported set; the reported set is the latest one
\* the group reported, the new watch is the only one outstanding, and there
\* is never more than one watch armed or waiting to be served.
C19_Membership ==
  /\ [](logState = "running" => WatchesInFlight <= 1)
  /\ [][ServesWatch =>
          LET memberships == Head(logMailbox).val
              absent == membership.st = "ready"
                          /\ membership.id \notin memberships
          IN /\ absent => membership' = JoinPending /\ joins' = joins + 1
             /\ ~absent => membership' = membership /\ joins' = joins
             /\ memberships = reported
             /\ watches' = <<memberships>>]_vars

\* The first membership expired and the callback has rejoined and re-armed
\* the watch with the reported set, which holds the peer only.
C19_Witness ==
  /\ logState = "running"
  /\ joins = 2
  /\ membership = JoinPending
  /\ reported = {Peer}
  /\ watches = <<{Peer}>>

(***************************************************************************)
(* C20.  Failed and discarded joins and watches.                           *)
(***************************************************************************)
FailureQueued ==
  \E i \in 1..Len(logMailbox) : logMailbox[i].type \in {"failed", "discarded"}

\* C20 (as stated): once a join or a watch has failed or was discarded the
\* LogProcess is aborted, or the event that aborts it is in its mailbox.
C20_Original ==
  groupFailed => logState = "aborted" \/ FailureQueued

\* A step in which the LogProcess serves failed() or discarded().
ServesFailure ==
  /\ logState = "running"
  /\ logMailbox # <<>>
  /\ Head(logMailbox).type \in {"failed", "discarded"}
  /\ logMailbox' = Tail(logMailbox)
  /\ logState' # "finalizing"

\* C20 (amended): while the LogProcess runs, a failed or discarded join or
\* watch has its event in the mailbox; serving the event aborts the process,
\* which then stays aborted; a join that failed or was discarded is not
\* replaced by another join, and only a shutdown makes the process leave
\* the running state without aborting.
C20_Fatal ==
  /\ [](groupFailed /\ logState = "running" => FailureQueued)
  /\ [][ServesFailure => logState' = "aborted"]_vars
  /\ [][logState = "aborted" => logState' = "aborted"]_vars
  /\ [][membership.st \in {"failed", "discarded"} =>
          membership' = membership /\ joins' = joins]_vars
  /\ [][groupFailed /\ logState = "running" /\ logState' # "running" =>
          \/ ServesFailure
          \/ logState' = "finalizing" /\ logMailbox' = <<>>]_vars

\* The renewal of an expired membership failed and the process is aborted.
C20_Witness ==
  /\ logState = "aborted"
  /\ joins = 2
  /\ membership.st = "failed"


(***************************************************************************)
(* C21.  The gate promises of the reader and of the writer, under Spec.    *)
(***************************************************************************)
\* The queue of a gate holds each waiting operation once, every operation
\* that waits is in it, and while it is not empty the process is alive and
\* its _recover is still to come.
GateQueue(ops, list, box, state, future) ==
  /\ \A i, j \in 1..Len(list) : list[i] = list[j] => i = j
  /\ \A i \in 1..Len(ops) : ops[i].pc = "gated" <=> i \in Range(list)
  /\ \A i \in Range(list) : ops[i].fut = Pending
  /\ list # <<>> =>
       /\ state = "alive"
       /\ future.st = "pending" \/ Queued(box, "_recover")
  /\ future.st = "pending" => ~Queued(box, "_recover")

\* What a step does to the operations at a gate: one leaves the gate only
\* when _recover is served (released, or failed with the failure of the
\* recovery) or when the process is terminated (failed with `deleted`),
\* together with all the others; one enters it only from the mailbox and
\* only while the recovery future is pending; none enters twice.
GateStep(ops, ops2, list2, future, recovers, terminates, deleted) ==
  \A i \in 1..Len(ops) :
    /\ (ops[i].pc = "gated" /\ ops2[i].pc # "gated") =>
         /\ list2 = <<>>
         /\ \/ /\ recovers /\ future.st = "ready"
               /\ ops2[i].pc = "continuation" /\ ops2[i].fut = Pending
            \/ /\ recovers /\ future.st \in {"failed", "discarded"}
               /\ ops2[i].pc = "done"
               /\ ops2[i].fut = Failure(IF future.st = "failed" THEN future.val
                                        ELSE UnexpectedDiscard)
            \/ /\ terminates
               /\ ops2[i].pc = "done" /\ ops2[i].fut = Failure(deleted)
    /\ (ops[i].pc # "gated" /\ ops2[i].pc = "gated") =>
         ops[i].pc = "queued" /\ future.st = "pending"
    /\ ops2[i].pc = "queued" => ops[i].pc = "queued"

\* C21: in the reader and in the writer every promise queued by recover()
\* is completed exactly once, by _recover once the recovery future has left
\* pending or by finalize with the error of the deletion, and none is queued
\* once the recovery future has left pending, so none after _recover ran.
C21_GatePromises ==
  /\ [](/\ GateQueue(rdOps, rdPromises, rdMailbox, rdState, logFut["reader"])
        /\ GateQueue(wrOps, wrPromises, wrMailbox, wrState, logFut["writer"]))
  /\ [][/\ GateStep(rdOps, rdOps', rdPromises', logFut["reader"],
                    ServesReaderRecover,
                    rdState = "alive" /\ rdState' = "terminated",
                    ReaderDeleted)
        /\ GateStep(wrOps, wrOps', wrPromises', logFut["writer"],
                    ServesWriterRecover,
                    wrState = "alive" /\ wrState' = "terminated",
                    WriterDeleted)]_vars

\* The writer was deleted with an elect at its gate, although the recovery
\* had already failed and _recover was on its way; the reader's _recover
\* has failed the read that waited at its gate.
C21_Witness ==
  /\ wrState = "terminated" /\ wrPromises = <<>>
  /\ logFut["writer"].st = "failed"
  /\ \E i \in 1..Len(wrOps) :
       wrOps[i].kind = "elect" /\ wrOps[i].fut = Failure(WriterDeleted)
  /\ rdState = "alive" /\ rdPromises = <<>>
  /\ \E i \in 1..Len(rdOps) :
       rdOps[i].kind = "read" /\ rdOps[i].fut = Failure("recover failed")


(***************************************************************************)
(* C22.  elect() of a writer whose recovery has failed, under Spec.        *)
(***************************************************************************)
\* This step serves the elect at the head of the writer's mailbox.
ServesElect ==
  /\ wrState = "alive" /\ wrState' = "alive"
  /\ wrMailbox # <<>>
  /\ Head(wrMailbox).type = "elect"
  /\ Len(wrMailbox') <= Len(wrMailbox)
  /\ wrOps'[Head(wrMailbox).op].pc # "queued"

RecoveryHasFailed == wrState # "none" /\ logFut["writer"].st = "failed"

\* C22: an elect served once the writer's recovery future has failed fails
\* with the failure of that future and changes neither the coordinator nor
\* the error nor what the coordinator has in hand, and queues nothing; such
\* a writer never has a coordinator or an error, and an append or truncate
\* it serves fails with "No election has been performed".
C22_ElectAfterFailedRecovery ==
  /\ [](RecoveryHasFailed =>
          /\ coordinator = 0 /\ error = "" /\ coordOps = {}
          /\ \A i \in 1..Len(wrOps) : wrOps[i].coord = 0)
  /\ [][RecoveryHasFailed /\ ServesElect =>
          /\ wrOps'[Head(wrMailbox).op].pc = "done"
          /\ wrOps'[Head(wrMailbox).op].fut = Failure(logFut["writer"].val)
          /\ wrMailbox' = Tail(wrMailbox)
          /\ UNCHANGED <<coordinator, error, coordOps, wrPromises>>]_vars
  /\ [][RecoveryHasFailed /\ ServesWrite =>
          /\ wrOps'[WriteServed].fut = Failure(NoElection)
          /\ UNCHANGED <<coordinator, error, coordOps>>]_vars

\* The recovery failed, the elect served after that failed with its
\* message, and the append that followed found no election.
C22_Witness ==
  /\ logFut["writer"] = Failure("recover failed")
  /\ wrState = "alive" /\ wrMailbox = <<>>
  /\ Len(wrOps) = 2
  /\ wrOps[1].kind = "elect" /\ wrOps[1].fut = Failure("recover failed")
  /\ wrOps[2].kind = "append" /\ wrOps[2].fut = Failure(NoElection)
  /\ coordinator = 0 /\ error = ""


(***************************************************************************)
(* C23.  The joins of a LogProcess with a group, under SpecGroup.          *)
(***************************************************************************)
\* This step calls group->join.
Joins == joins' = joins + 1

\* C23: a join is started by initialize() or by a watch callback that finds
\* the membership future ready and its membership absent from the reported
\* set; none is started while the membership future is pending (or failed
\* or discarded), so at most one join is in flight: while one is, it is the
\* latest, and a ready membership is the one of the latest join.
C23_OneJoin ==
  /\ [](/\ logState = "spawned" <=> joins = 0
        /\ membership.st = "none" <=> joins = 0
        /\ membership.st = "ready" => membership.id = joins)
  /\ [][Joins =>
          \/ logState = "spawned" /\ joins = 0 /\ membership.st = "none"
          \/ /\ ServesWatch
             /\ membership.st = "ready"
             /\ membership.id \notin Head(logMailbox).val]_vars
  /\ [][membership.st = "pending" => joins' = joins]_vars
  /\ [][(ServesWatch /\ membership.st # "ready") =>
          membership' = membership]_vars

\* A callback was served while the first join was still pending, with a
\* reported set that holds the peer only, and no second join was started.
C23_Witness ==
  /\ logState = "running"
  /\ logMailbox = <<>>
  /\ joins = 1
  /\ membership = JoinPending
  /\ reported = {Peer}
  /\ watches = <<{Peer}>>


==========================================================================
